---- MODULE Spec2Model ----
(***************************************************************************)
(* A model of fix_clipboard.py: the pasteboard monitor that replaces an    *)
(* "image + plain text, not a file copy" clipboard by the image alone.     *)
(*                                                                         *)
(* The general pasteboard is a sequence of entries (type identifier,       *)
(* payload) in declaration order.  Python's None is the value None.  A     *)
(* payload is a tuple: <<>> is the empty byte string (falsy in Python, as  *)
(* None is), <<t, n>> is the n-th non-empty payload of format t.           *)
(***************************************************************************)
EXTENDS Integers, Sequences, FiniteSets, TLC

\* ------------------------------------------------------------------------
\* Bounds of the model
\* ------------------------------------------------------------------------
\* Longest identifier list handed to has_image_and_text in SpecPattern.
MaxLen == 3
\* Number of distinct non-empty payloads per format (image bytes, text).
MaxPayload == 1

\* ------------------------------------------------------------------------
\* Identifier table (AppKit constants and the one literal of the source)
\* ------------------------------------------------------------------------
NSPasteboardTypeTIFF == "public.tiff"
NSPasteboardTypePNG == "public.png"
NSPasteboardTypeString == "public.utf8-plain-text"
NSPasteboardTypeFileURL == "public.file-url"
FilePathType == "public.file-path"
\* An identifier none of the tables names (what a browser adds besides).
OtherType == "public.html"

AllTypes ==
    {NSPasteboardTypeTIFF, NSPasteboardTypePNG, NSPasteboardTypeString,
     NSPasteboardTypeFileURL, FilePathType, OtherType}

None == <<"None">>

Range(s) == {s[i] : i \in DOMAIN s}

\* A variant that tests "is not None" where the source tests truth.
NotNone(v) == v # <<"None">>

\* Python's truth value of an Optional list or byte string: None and the
\* empty sequence are falsy.
\* A variant of the truth test that takes every value for data.
TruthyAlways(v) == TRUE

Truthy(v) == v # None /\ v # <<>>

\* Python's "t in types" on a list.
Contains(types, t) == \E i \in DOMAIN types : types[i] = t

\* any(t in types for t in candidates)
AnyIn(types, candidates) ==
    \E j \in DOMAIN candidates : Contains(types, candidates[j])

\* ------------------------------------------------------------------------
\* has_image_and_text (lines 71-106)
\* ------------------------------------------------------------------------
has_image(types) ==
    AnyIn(types, <<NSPasteboardTypeTIFF, NSPasteboardTypePNG>>)

\* A variant that does not ask for the plain-text identifier.
has_text_not_asked(types) == TRUE

has_text(types) == Contains(types, NSPasteboardTypeString)

\* A variant without the file-copy exclusion.
has_file_never(types) == FALSE

\* A variant that forgets the legacy identifier of line 100.
has_file_modern_only(types) == AnyIn(types, <<NSPasteboardTypeFileURL>>)

has_file(types) == AnyIn(types, <<NSPasteboardTypeFileURL, FilePathType>>)

has_image_and_text(types) ==
    IF ~Truthy(types)
    THEN FALSE
    ELSE has_image(types) /\ has_text(types) /\ ~has_file(types)

\* ------------------------------------------------------------------------
\* Program constants
\* ------------------------------------------------------------------------
DEFAULT_POLL_INTERVAL == 1
\* The factor of the longer sleep of the "except Exception" handler.
BackoffFactor == 5

\* The intervals the command line can hand to main: argparse's type=float
\* accepts any number; a negative one and the default stand for them.
Intervals == {0 - DEFAULT_POLL_INTERVAL, DEFAULT_POLL_INTERVAL}

\* ------------------------------------------------------------------------
\* The general pasteboard (the AppKit collaborator)
\* ------------------------------------------------------------------------
Entry(t, d) == [type |-> t, data |-> d]

\* The payloads a writer can put under identifier t: the empty one (a
\* promised payload that is not there), or a non-empty one.
NonEmptyPayloads(t) == {<<t, n>> : n \in 1..MaxPayload}

Payloads(t) == {<<>>} \cup NonEmptyPayloads(t)

OptionalEntry(t, payloads) == {<<>>} \cup {<<Entry(t, d)>> : d \in payloads}

\* What an application puts on the pasteboard when the user copies an image,
\* a text or both (a browser's "copy image" has all three entries): any
\* combination of a TIFF entry, a PNG entry and a plain-text entry, the empty
\* pasteboard included.
ContentCopies ==
    {a \o b \o c :
        a \in OptionalEntry(NSPasteboardTypeTIFF, Payloads(NSPasteboardTypeTIFF)),
        b \in OptionalEntry(NSPasteboardTypePNG, Payloads(NSPasteboardTypePNG)),
        c \in OptionalEntry(NSPasteboardTypeString,
                            NonEmptyPayloads(NSPasteboardTypeString))}

\* What a file manager puts there when the user copies a file: the file
\* reference (modern or legacy), the file's name as text and a preview image.
FileCopies ==
    {<<Entry(f, <<"path">>), Entry(NSPasteboardTypeString, s), Entry(i, d)>> :
        f \in {NSPasteboardTypeFileURL, FilePathType},
        s \in NonEmptyPayloads(NSPasteboardTypeString),
        i \in {NSPasteboardTypeTIFF, NSPasteboardTypePNG},
        d \in {<<"preview">>}}

Copies == ContentCopies \cup FileCopies

\* pb.types()
TypesOf(board) == [i \in DOMAIN board |-> board[i].type]

\* pb.dataForType_(t) and pb.stringForType_(t): the payload of the first
\* entry of that type, None when there is none.
DataForType(board, t) ==
    IF \E i \in DOMAIN board : board[i].type = t
    THEN LET i == CHOOSE i \in DOMAIN board :
                      /\ board[i].type = t
                      /\ \A j \in DOMAIN board : board[j].type = t => i <= j
         IN board[i].data
    ELSE None

\* A variant in which the pasteboard is not emptied.
ClearNothing(board) == board

\* pb.clearContents()
\* A variant of the clearing that leaves the TIFF entries in place.
ClearKeepsTIFF(board) ==
    SelectSeq(board, LAMBDA e : e.type = NSPasteboardTypeTIFF)

ClearContents(board) == <<>>

\* A variant that stores the data under the TIFF identifier whatever t is.
SetDataUnderTIFF(board, data, t) ==
    Append(board, Entry(NSPasteboardTypeTIFF, data))

\* pb.setData_forType_(data, t) when the pasteboard accepts the data.
SetDataForType(board, data, t) ==
    IF \E i \in DOMAIN board : board[i].type = t
    THEN [i \in DOMAIN board |->
             IF board[i].type = t THEN Entry(t, data) ELSE board[i]]
    ELSE Append(board, Entry(t, data))

\* ------------------------------------------------------------------------
\* State
\* ------------------------------------------------------------------------
VARIABLES
    pb,                  \* the general pasteboard
    pc,                  \* the statement the process is at
    status,              \* "running", or how the process ended
    poll_interval,       \* main's argument
    last_types,          \* main's locals
    last_plain_text,
    current_types,
    current_plain_text,
    image_data,          \* copy_image_only's locals
    image_type,
    fixed,               \* what copy_image_only returned in this tick
    failure,             \* history: the pasteboard call that made it fail
    entry_pb,            \* history: {the pasteboard as copy_image_only found
                         \* it}, {} outside a call and once another process
                         \* has written during the call
    touched,             \* history: the pasteboard was written since the
                         \* latest read that succeeded called pb.types() (or
                         \* no read has succeeded yet)
    touched_now,         \* history: it was written since this tick's call of
                         \* pb.types() (FALSE outside a read)
    aborted,             \* history: the tick of the latest read that
                         \* succeeded was ended by the handler of line 216
                         \* before line 205
    slept,               \* history: the length of the time.sleep that has
                         \* just returned (0 once the next tick has begun,
                         \* and when none has returned)
    corrected,           \* history: a call of copy_image_only that no other
                         \* process disturbed has stored the image, and no
                         \* other process has written the pasteboard since
    arg_types,           \* has_image_and_text called on its own
    ret_match

vars ==
    <<pb, pc, status, poll_interval, last_types, last_plain_text,
      current_types, current_plain_text, image_data, image_type, fixed,
      failure, entry_pb, touched, touched_now, aborted, corrected, slept,
      arg_types, ret_match>>

loopVars ==
    <<pb, pc, status, poll_interval, last_types, last_plain_text,
      current_types, current_plain_text, image_data, image_type, fixed,
      failure, entry_pb, touched, touched_now, aborted, corrected, slept>>

CorrectorPcs == {"extract_tiff", "extract_png", "clear", "write"}

\* ------------------------------------------------------------------------
\* main (lines 160-220): state after line 172
\* ------------------------------------------------------------------------
Init ==
    /\ pb \in Copies
    /\ pc = "poll"
    /\ status = "running"
    /\ poll_interval \in Intervals
    /\ last_types = None
    /\ last_plain_text = None
    /\ current_types = None
    /\ current_plain_text = None
    /\ image_data = None
    /\ image_type = None
    /\ fixed = "none"
    /\ failure = "none"
    /\ entry_pb = {}
    /\ touched = TRUE
    /\ touched_now = FALSE
    /\ aborted = FALSE
    /\ corrected = FALSE
    /\ slept = 0
    /\ arg_types = None
    /\ ret_match = FALSE

Running(at) == status = "running" /\ pc = at

history == <<touched, touched_now, aborted, corrected>>

\* History: a read has succeeded; by_handler tells whether its tick then
\* ended in the handler of line 216.
SnapshotRead(by_handler) ==
    /\ touched' = touched_now
    /\ touched_now' = FALSE
    /\ aborted' = by_handler
    /\ UNCHANGED corrected

\* History: the pasteboard is written, by this process or another; fix tells
\* whether the write completes an undisturbed correction.
Written(fix) ==
    /\ touched' = TRUE
    /\ touched_now' = (pc = "read_text")
    /\ corrected' = fix
    /\ UNCHANGED aborted

\* A variant without the comparison of line 183: every read counts as a
\* change.
clipboard_changed_always(types, text) == TRUE

\* Line 183.
clipboard_changed(types, text) ==
    types # last_types \/ text # last_plain_text

\* A variant without the test of line 205: a failed read overwrites too.
EndTickAlways(types, text) ==
    /\ last_types' = types
    /\ last_plain_text' = text
    /\ pc' = "sleep"

\* Lines 205-207 followed by the arrival at time.sleep (line 210).
EndTick(types, text) ==
    /\ IF types # None
       THEN /\ last_types' = types
            /\ last_plain_text' = text
       ELSE UNCHANGED <<last_types, last_plain_text>>
    /\ pc' = "sleep"

\* get_clipboard_contents' except branch: it returns (None, None).
ReadFailed ==
    /\ current_types' = None
    /\ current_plain_text' = None
    /\ EndTick(None, None)
    /\ touched_now' = FALSE
    /\ UNCHANGED <<pb, status, poll_interval, image_data, image_type, fixed,
                   failure, entry_pb, touched, aborted, corrected>>

\* Line 178 -> line 61: pb.types()
ReadTypes ==
    /\ Running("poll")
    /\ \/ /\ current_types' = TypesOf(pb)
          /\ pc' = "read_text"
          /\ UNCHANGED <<pb, status, poll_interval, last_types,
                         last_plain_text, current_plain_text, image_data,
                         image_type, fixed, failure, entry_pb, history>>
       \/ ReadFailed
    /\ slept' = 0
    /\ UNCHANGED <<arg_types, ret_match>>

\* Line 64: pb.stringForType_, then lines 65 and 183-201 up to the call of
\* copy_image_only or the end of the tick.
ReadText ==
    /\ Running("read_text")
    /\ \/ LET text == DataForType(pb, NSPasteboardTypeString) IN
          /\ UNCHANGED <<pb, status, poll_interval, image_data, image_type,
                         fixed, failure>>
          /\ IF clipboard_changed(current_types, text) /\ current_types # None
             THEN \* Line 198: copy_image_only is entered.  last_types and
                  \* last_plain_text are not read again before lines
                  \* 206-207 overwrite them (current_types is not None), so
                  \* their old values are dropped here.
                  \/ /\ has_image_and_text(current_types)
                     /\ pc' = "extract_tiff"
                     /\ entry_pb' = {pb}
                     /\ current_plain_text' = text
                     /\ last_types' = None
                     /\ last_plain_text' = None
                     /\ SnapshotRead(FALSE)
                     /\ UNCHANGED current_types
                  \/ /\ ~has_image_and_text(current_types)
                     /\ current_plain_text' = text
                     /\ EndTick(current_types, text)
                     /\ SnapshotRead(FALSE)
                     /\ UNCHANGED <<current_types, entry_pb>>
                  \* print (line 189, debug logging on) fails: the handler
                  \* of line 216 takes over, lines 195-210 are skipped and
                  \* nothing reads this tick's snapshot any more.
                  \/ /\ pc' = "backoff"
                     /\ current_types' = None
                     /\ current_plain_text' = None
                     /\ SnapshotRead(TRUE)
                     /\ UNCHANGED <<last_types, last_plain_text, entry_pb>>
             ELSE /\ current_plain_text' = text
                  /\ EndTick(current_types, text)
                  /\ SnapshotRead(FALSE)
                  /\ UNCHANGED <<current_types, entry_pb>>
       \/ ReadFailed
    /\ UNCHANGED <<slept, arg_types, ret_match>>

\* copy_image_only returns r (f: the pasteboard call that failed, for the
\* record); main goes on to lines 205-210.
Return(r, f) ==
    /\ fixed' = r
    /\ failure' = f
    /\ image_data' = None
    /\ image_type' = None
    /\ entry_pb' = {}
    /\ EndTick(current_types, current_plain_text)
    /\ UNCHANGED <<status, poll_interval, current_types, current_plain_text>>

\* Line 123: pb.dataForType_(TIFF), lines 124-127.
ExtractTIFF ==
    /\ Running("extract_tiff")
    /\ \/ LET d == DataForType(pb, NSPasteboardTypeTIFF) IN
          /\ image_data' = d
          /\ image_type' = NSPasteboardTypeTIFF
          /\ pc' = IF Truthy(d) THEN "clear" ELSE "extract_png"
          /\ UNCHANGED <<pb, status, poll_interval, last_types,
                         last_plain_text, current_types, current_plain_text,
                         fixed, failure, entry_pb>>
       \/ Return("False", "dataForType_ raised") /\ UNCHANGED pb
    /\ UNCHANGED <<history, slept, arg_types, ret_match>>

\* Line 128: pb.dataForType_(PNG), lines 129-132 and 149-152.
ExtractPNG ==
    /\ Running("extract_png")
    /\ \/ LET d == DataForType(pb, NSPasteboardTypePNG) IN
          IF Truthy(d)
          THEN /\ image_data' = d
               /\ image_type' = NSPasteboardTypePNG
               /\ pc' = "clear"
               /\ UNCHANGED <<pb, status, poll_interval, last_types,
                              last_plain_text, current_types,
                              current_plain_text, fixed, failure,
                              entry_pb>>
          ELSE Return("False", "none") /\ UNCHANGED pb
       \/ Return("False", "dataForType_ raised") /\ UNCHANGED pb
    /\ UNCHANGED <<history, slept, arg_types, ret_match>>

\* Line 140: pb.clearContents()
Clear ==
    /\ Running("clear")
    /\ \/ /\ pb' = ClearContents(pb)
          /\ pc' = "write"
          /\ Written(corrected)
          /\ UNCHANGED <<status, poll_interval, last_types, last_plain_text,
                         current_types, current_plain_text, image_data,
                         image_type, fixed, failure, entry_pb>>
       \/ Return("False", "clearContents raised") /\ UNCHANGED <<pb, history>>
    /\ UNCHANGED <<slept, arg_types, ret_match>>

\* Lines 144-148: pb.setData_forType_ and the return.  The call stores the
\* data, or returns NO and stores nothing (its result is not looked at), or
\* raises.
Write ==
    /\ Running("write")
    /\ \/ /\ pb' = SetDataForType(pb, image_data, image_type)
          /\ Written(entry_pb # {})
          /\ Return("True", "none")
       \/ /\ UNCHANGED <<pb, history>>
          /\ Return("True", "setData_forType_ refused")
       \/ /\ UNCHANGED <<pb, history>>
          /\ Return("False", "setData_forType_ raised")
    /\ UNCHANGED <<slept, arg_types, ret_match>>

\* The loop goes round: line 178 assigns current_types and
\* current_plain_text before anything reads them again, and the result of
\* the last copy_image_only is gone.
NextIteration ==
    /\ current_types' = None
    /\ current_plain_text' = None
    /\ fixed' = "none"
    /\ failure' = "none"

\* Line 210: time.sleep(poll_interval) raises ValueError on a negative
\* length, which the handler of line 216 catches.
Sleep ==
    /\ Running("sleep")
    /\ pc' = IF poll_interval < 0 THEN "backoff" ELSE "poll"
    /\ slept' = IF poll_interval < 0 THEN 0 ELSE poll_interval
    /\ NextIteration
    /\ UNCHANGED <<pb, status, poll_interval, last_types, last_plain_text,
                   image_data, image_type, entry_pb, history, arg_types,
                   ret_match>>

\* Lines 218-220: time.sleep(poll_interval * 5) in the handler; an exception
\* raised here is caught by nothing.
Backoff ==
    /\ Running("backoff")
    /\ IF poll_interval * BackoffFactor < 0
       THEN status' = "uncaught Exception" /\ pc' = pc
       ELSE status' = status /\ pc' = "poll"
    /\ slept' = IF poll_interval * BackoffFactor < 0
                THEN 0
                ELSE poll_interval * BackoffFactor
    /\ NextIteration
    /\ UNCHANGED <<pb, poll_interval, last_types, last_plain_text,
                   image_data, image_type, entry_pb, history, arg_types,
                   ret_match>>

\* Ctrl+C.  Inside the try block (lines 176-210) KeyboardInterrupt reaches
\* line 212: the loop breaks and the script ends.  In the handler of line
\* 216 nothing catches it.  pc keeps the statement that was interrupted;
\* main's locals end with the process.
KeyboardInterrupt ==
    /\ status = "running"
    /\ status' = IF pc = "backoff" THEN "uncaught KeyboardInterrupt"
                                   ELSE "exit 0"
    /\ last_types' = None
    /\ last_plain_text' = None
    /\ NextIteration
    /\ UNCHANGED <<pb, pc, poll_interval, image_data, image_type, entry_pb,
                   history, slept, arg_types, ret_match>>

\* Another process replaces the pasteboard's content.
ExternalWrite ==
    /\ status = "running"
    /\ \E c \in Copies : c # pb /\ pb' = c
    /\ entry_pb' = {}
    /\ Written(FALSE)
    /\ UNCHANGED <<pc, status, poll_interval, last_types, last_plain_text,
                   current_types, current_plain_text, image_data, image_type,
                   fixed, failure, slept, arg_types, ret_match>>

Next ==
    \/ ReadTypes
    \/ ReadText
    \/ ExtractTIFF
    \/ ExtractPNG
    \/ Clear
    \/ Write
    \/ Sleep
    \/ Backoff
    \/ KeyboardInterrupt
    \/ ExternalWrite

Spec == Init /\ [][Next]_vars

\* The while loop of line 175: as long as the process runs, its next
\* statement is executed.
Loop ==
    \/ ReadTypes
    \/ ReadText
    \/ ExtractTIFF
    \/ ExtractPNG
    \/ Clear
    \/ Write
    \/ Sleep
    \/ Backoff

SpecFair == Spec /\ WF_vars(Loop)

\* ------------------------------------------------------------------------
\* has_image_and_text on its own: any identifier list, in any order, with
\* duplicates, and the absent list
\* ------------------------------------------------------------------------
RECURSIVE ListsUpTo(_)
ListsUpTo(n) ==
    IF n = 0
    THEN {<<>>}
    ELSE LET shorter == ListsUpTo(n - 1) IN
         shorter \cup {Append(s, t) : s \in shorter, t \in AllTypes}

TypeLists == ListsUpTo(MaxLen) \cup {None}

InitPattern ==
    /\ pb = <<>>
    /\ pc = "poll"
    /\ status = "running"
    /\ poll_interval = DEFAULT_POLL_INTERVAL
    /\ last_types = None
    /\ last_plain_text = None
    /\ current_types = None
    /\ current_plain_text = None
    /\ image_data = None
    /\ image_type = None
    /\ fixed = "none"
    /\ failure = "none"
    /\ entry_pb = {}
    /\ touched = TRUE
    /\ touched_now = FALSE
    /\ aborted = FALSE
    /\ corrected = FALSE
    /\ slept = 0
    /\ arg_types = None
    /\ ret_match = has_image_and_text(None)

CallPattern ==
    /\ \E S \in TypeLists :
          /\ arg_types' = S
          /\ ret_match' = has_image_and_text(S)
    /\ UNCHANGED loopVars

NextPattern == CallPattern

SpecPattern == InitPattern /\ [][NextPattern]_vars

\* ------------------------------------------------------------------------
\* Properties
\* ------------------------------------------------------------------------
ImageTypes == {NSPasteboardTypeTIFF, NSPasteboardTypePNG}
FileTypes == {NSPasteboardTypeFileURL, FilePathType}

\* The pattern as a property of the set of identifiers present.
PatternOfSet(present) ==
    /\ present \cap ImageTypes # {}
    /\ NSPasteboardTypeString \in present
    /\ present \cap FileTypes = {}

\* C1: whatever list has_image_and_text was last called on (any order, any
\* duplicates, empty or absent), and whatever it was called on before, its
\* result is true exactly when the set of identifiers in the list has an
\* image identifier, has the plain-text identifier and has no file-reference
\* identifier (modern or legacy).
C1_PatternIffImageTextNoFile ==
    ret_match = (arg_types # None /\ PatternOfSet(Range(arg_types)))

\* C1 witness: a match on a list with a duplicate and the text identifier
\* ahead of the image identifier, reached after an earlier call.
C1_Witness ==
    /\ ret_match
    /\ Len(arg_types) = MaxLen
    /\ arg_types[1] = NSPasteboardTypeString
    /\ arg_types[MaxLen] = NSPasteboardTypeString
    /\ \E i \in DOMAIN arg_types : arg_types[i] = NSPasteboardTypePNG

\* Line 198 is reached: this step calls copy_image_only.
Dispatch == pc = "read_text" /\ pc' = "extract_tiff"

AtEntry == CHOOSE board \in entry_pb : TRUE

\* The pasteboard call of line 145 returns after storing the data, in a call
\* of copy_image_only during which no other process wrote the pasteboard and
\* no pasteboard call failed.
UndisturbedWrite ==
    /\ pc = "write"
    /\ pc' = "sleep"
    /\ failure' = "none"
    /\ entry_pb # {}

\* A read of a payload yields something: not None and not the empty bytes.
HasBytes(d) == d \notin {None, <<>>}

\* The pattern holds of the pasteboard content board.
MatchingContent(board) ==
    /\ has_text(TypesOf(board))
    /\ ~has_file(TypesOf(board))

\* C3: when the pasteboard holds non-empty TIFF bytes B, a plain-text entry
\* and no file reference (a PNG entry or not), nobody else writes it during
\* the correction and no pasteboard call fails, then as copy_image_only
\* returns the pasteboard holds the single entry (TIFF, B).
C3_TiffAloneAfterCorrection ==
    [][(/\ UndisturbedWrite
        /\ MatchingContent(AtEntry)
        /\ HasBytes(DataForType(AtEntry, NSPasteboardTypeTIFF)))
       => /\ pb' = <<Entry(NSPasteboardTypeTIFF,
                           DataForType(AtEntry, NSPasteboardTypeTIFF))>>
          /\ fixed' = "True"]_vars

\* C3 witness: a correction of a pasteboard that had TIFF, PNG and text has
\* returned True and the pasteboard holds the TIFF entry alone.
C3_Witness ==
    /\ Running("sleep")
    /\ fixed = "True"
    /\ failure = "none"
    /\ current_types = <<NSPasteboardTypeTIFF, NSPasteboardTypePNG,
                         NSPasteboardTypeString>>
    /\ pb = <<Entry(NSPasteboardTypeTIFF, <<NSPasteboardTypeTIFF, 1>>)>>

\* C4: when the pasteboard has no TIFF payload but a PNG payload B2 (and a
\* text entry and no file reference), nobody else writes it during the
\* correction and no pasteboard call fails, then as copy_image_only returns
\* the pasteboard holds the single entry (PNG, B2); and the PNG payload is
\* read only after the TIFF read of this call has yielded nothing.
C4_PngFallback ==
    [][/\ (/\ UndisturbedWrite
           /\ MatchingContent(AtEntry)
           /\ ~HasBytes(DataForType(AtEntry, NSPasteboardTypeTIFF))
           /\ HasBytes(DataForType(AtEntry, NSPasteboardTypePNG)))
          => /\ pb' = <<Entry(NSPasteboardTypePNG,
                              DataForType(AtEntry, NSPasteboardTypePNG))>>
             /\ fixed' = "True"
       /\ (pc # "extract_png" /\ pc' = "extract_png")
          => /\ pc = "extract_tiff"
             /\ ~HasBytes(DataForType(pb, NSPasteboardTypeTIFF))
       /\ (image_type' = NSPasteboardTypePNG /\ image_type # image_type')
          => pc = "extract_png"]_vars

\* C4 witness: a correction of a pasteboard whose TIFF entry had an empty
\* payload beside a PNG entry has returned True and the pasteboard holds the
\* PNG entry alone.
C4_Witness ==
    /\ Running("sleep")
    /\ fixed = "True"
    /\ failure = "none"
    /\ current_types = <<NSPasteboardTypeTIFF, NSPasteboardTypePNG,
                         NSPasteboardTypeString>>
    /\ pb = <<Entry(NSPasteboardTypePNG, <<NSPasteboardTypePNG, 1>>)>>

\* C5: from the moment a correction that nobody disturbed has stored the
\* image, and for as long as no other process writes the pasteboard: the
\* pasteboard holds one image entry and does not match the pattern,
\* copy_image_only is not running and is not called again (a read that
\* succeeds ends its tick without the call, whether or not it counts as a
\* change), and no step changes the pasteboard.
C5_NoRetriggerAfterCorrection ==
    /\ [](corrected =>
            /\ Len(pb) = 1
            /\ pb[1].type \in ImageTypes
            /\ ~has_image_and_text(TypesOf(pb))
            /\ pc \notin CorrectorPcs)
    /\ [][(corrected /\ corrected') => (pb' = pb /\ ~Dispatch)]_vars

\* C5 witness: after such a correction a later tick has read the image-only
\* pasteboard and has ended at the sleep without calling copy_image_only.
C5_Witness ==
    /\ corrected
    /\ Running("sleep")
    /\ fixed = "none"
    /\ current_types = TypesOf(pb)
    /\ last_types = current_types

\* A step of the monitor itself (every one moves pc or ends the process;
\* another process's write does neither).
OwnStep == pc' # pc \/ status' # status

\* C6: in a tick whose snapshot has an image identifier, the text identifier
\* and a file reference (modern or legacy), and in every tick whose snapshot
\* does not match the pattern or equals (last_types, last_plain_text), the
\* monitor neither clears nor writes: such a tick goes from the read straight
\* to its end, copy_image_only runs only on a snapshot with image, text and
\* no file reference, and no step of the monitor outside lines 140 and 145
\* changes the pasteboard.
C6_NoActionUnlessChangedMatch ==
    [][/\ (OwnStep /\ pc \notin {"clear", "write"}) => pb' = pb
       /\ (/\ OwnStep
           /\ pc = "read_text"
           /\ \/ ~PatternOfSet(Range(current_types))
              \/ ~clipboard_changed(current_types,
                                    DataForType(pb, NSPasteboardTypeString)))
          => (pc' \in {"sleep", "backoff"} \/ status' # "running")
       /\ (pc' \in CorrectorPcs /\ status' = "running")
          => PatternOfSet(Range(current_types'))]_vars

\* C6 witness: a tick has read the snapshot of a file copy (file reference,
\* text, preview image) and ended at the sleep, copy_image_only not called,
\* the file copy still on the pasteboard.
C6_Witness ==
    /\ Running("sleep")
    /\ fixed = "none"
    /\ pb \in FileCopies
    /\ current_types = TypesOf(pb)
    /\ has_image(current_types) /\ has_text(current_types)
    /\ Contains(current_types, FilePathType)

\* The return of lines 149-152: neither dataForType_ call gave data.
NotFound ==
    /\ pc = "extract_png" /\ pc' = "sleep"
    /\ fixed' = "False" /\ failure' = "none"

\* C7: when neither a TIFF nor a PNG payload can be read, copy_image_only
\* returns False without clearing or writing (lines 140 and 145 are reached
\* only with data in hand), the pasteboard is what it was, the loop goes on
\* to its sleep, and each dataForType_ call is made once in the tick:
\* line 123 only from the dispatch of line 198, line 128 only after line 123.
C7_NotFoundLeavesClipboard ==
    /\ []((pc \in {"clear", "write"} /\ status = "running")
          => HasBytes(image_data))
    /\ [][/\ NotFound
             => /\ pb' = pb
                /\ status' = "running"
                /\ ~HasBytes(DataForType(pb, NSPasteboardTypePNG))
          /\ (OwnStep /\ pc \in {"extract_tiff", "extract_png"}) => pb' = pb
          /\ (OwnStep /\ status' = "running" /\ pc' = "extract_tiff")
             => pc = "read_text"
          /\ (OwnStep /\ status' = "running" /\ pc' = "extract_png")
             => pc = "extract_tiff"]_vars

\* C7 witness: copy_image_only has returned False with nothing raised, on a
\* snapshot that had an image, another process having replaced the
\* pasteboard by one without an image since the snapshot was read.
C7_Witness ==
    /\ Running("sleep")
    /\ fixed = "False" /\ failure = "none"
    /\ has_image_and_text(current_types)
    /\ touched
    /\ pb # <<>>
    /\ ~has_image(TypesOf(pb))

\* C8: copy_image_only returns True only when the image data was stored on
\* the pasteboard; a clearContents or setData_forType_ call that fails, by
\* raising or by its result, makes it return False.
C8_FailureReported == fixed = "True" => failure = "none"

\* C8 witness: setData_forType_ returned NO after the clear, and
\* copy_image_only has returned True over an empty pasteboard.
C8_Witness ==
    /\ Running("sleep")
    /\ fixed = "True"
    /\ failure = "setData_forType_ refused"
    /\ pb = <<>>

\* The return of a copy_image_only that did not store the image, no other
\* process having written since the tick's snapshot.
FailedUndisturbed ==
    /\ pc \in CorrectorPcs /\ pc' = "sleep"
    /\ entry_pb # {}
    /\ fixed' = "False" \/ failure' # "none"

\* C9: after a copy_image_only that failed, with no other writer, the
\* pasteboard is what it was at the snapshot when the failure came before
\* the clear or was the clear's own, and is empty when the clear went
\* through and the write failed; it then never holds the snapshot's
\* content or any other entries.
C9_UntouchedOrEmptyAfterFailure ==
    [][FailedUndisturbed
       => /\ pc \in {"extract_tiff", "extract_png", "clear"} => pb' = AtEntry
          /\ pc = "write" => (pb' = <<>> /\ pb' # AtEntry)]_vars

\* C9 witness: setData_forType_ raised after the clear; copy_image_only has
\* returned False and the pasteboard is empty.
C9_Witness ==
    /\ Running("sleep")
    /\ fixed = "False"
    /\ failure = "setData_forType_ raised"
    /\ has_image_and_text(current_types)
    /\ pb = <<>>

\* C10: a KeyboardInterrupt, wherever it arrives, ends the process through
\* the handler of line 212 (exit code 0), and never between the clear of
\* line 140 and the write of line 145.
C10_GracefulCancellation ==
    status \in {"exit 0", "uncaught KeyboardInterrupt"}
    => (status = "exit 0" /\ pc # "write")

\* C10 witness: the process has ended on a KeyboardInterrupt that arrived
\* after clearContents and before setData_forType_, the pasteboard empty
\* and the extracted image lost.
C10_Witness ==
    /\ status = "exit 0"
    /\ pc = "write"
    /\ entry_pb # {}
    /\ HasBytes(image_data)
    /\ pb = <<>>

\* C11: the loop ends only on a KeyboardInterrupt; whatever fails inside a
\* tick, the process is still running afterwards.
C11_EndsOnlyOnCancellation ==
    status # "running" => status \in {"exit 0", "uncaught KeyboardInterrupt"}

\* C11 witness: with a negative interval the ValueError of time.sleep at
\* line 210 was caught at line 216, the time.sleep of line 220 raised it
\* again, and the process has ended on it, no KeyboardInterrupt sent.
C11_Witness ==
    /\ status = "uncaught Exception"
    /\ pc = "backoff"
    /\ poll_interval < 0

\* C12: main's loop never arrives at one of its time.sleep calls (lines 210
\* and 220) with a poll_interval that is zero or negative.
C12_IntervalPositive ==
    (status = "running" /\ pc \in {"sleep", "backoff"}) => poll_interval > 0

\* C12 witness: a tick has run to time.sleep (line 210) with a negative
\* poll_interval.
C12_Witness ==
    /\ Running("sleep")
    /\ poll_interval <= 0

\* C13: the sleep that follows a failed read is the longer one,
\* BackoffFactor times poll_interval.
C13_BackoffAfterFailedRead ==
    [][(pc = "sleep" /\ current_types = None /\ pc' = "poll")
       => slept' = poll_interval * BackoffFactor]_vars

\* C13 witness: get_clipboard_contents returned (None, None) and the tick
\* is at time.sleep(poll_interval), line 210.
C13_Witness ==
    /\ Running("sleep")
    /\ current_types = None
    /\ poll_interval > 0

\* A tick arrives at its end: at time.sleep of line 210, or in the handler
\* of line 216 on the way to line 220.
TickEnds ==
    /\ pc \in {"poll", "read_text"} \cup CorrectorPcs
    /\ pc' \in {"sleep", "backoff"}
    /\ status' = "running"

Uninterrupted ==
    /\ OwnStep
    /\ status' \notin {"exit 0", "uncaught KeyboardInterrupt"}

\* C15: after an exception in a tick the handler of line 216 sleeps
\* BackoffFactor times poll_interval and the loop polls again; a tick that
\* ran to line 210 sleeps exactly poll_interval and the loop polls again.
C15_BackoffThenNormalInterval ==
    [][/\ (Uninterrupted /\ pc = "backoff")
          => /\ status' = "running"
             /\ pc' = "poll"
             /\ slept' = poll_interval * BackoffFactor
       /\ (Uninterrupted /\ pc = "sleep")
          => /\ pc' = "poll"
             /\ slept' = poll_interval]_vars

\* C15 witness: with a negative interval the time.sleep of line 210 has
\* raised, no sleep has been slept, and the handler of line 216 has taken
\* over a tick that had completed without an error.
C15_Witness ==
    /\ Running("backoff")
    /\ poll_interval < 0
    /\ slept = 0
    /\ ~aborted

\* C16: the monitor touches the pasteboard only inside copy_image_only, and
\* there in the order dataForType_, clearContents, setData_forType_: the
\* clear is reached only from a read that gave data, with image_data what
\* was read under image_type; the write is reached only from the clear; it
\* stores the one pair (image_type, image_data), leaves every other entry
\* alone, and is followed by the return.
C16_ClearThenWrite ==
    [][OwnStep
       => /\ pb' # pb => pc \in {"clear", "write"}
          /\ (status' = "running" /\ pc' = "clear")
             => /\ pc \in {"extract_tiff", "extract_png"}
                /\ image_type' \in ImageTypes
                /\ image_data' = DataForType(pb, image_type')
                /\ HasBytes(image_data')
          /\ (status' = "running" /\ pc' = "write")
             => /\ pc = "clear"
                /\ pb' = <<>>
                /\ UNCHANGED <<image_data, image_type>>
          /\ (status' = "running" /\ pc = "write")
             => /\ pc' = "sleep"
                /\ \/ pb' = pb
                   \/ /\ Entry(image_type, image_data) \in Range(pb')
                      /\ Range(pb') \ {Entry(image_type, image_data)}
                            \subseteq Range(pb)
                      /\ Len(pb') <= Len(pb) + 1
          /\ (status' = "running" /\ pc = "clear")
             => (pb' = pb \/ pb' = <<>>)]_vars

\* C16 witness: a copy_image_only that nothing disturbed is between its
\* clear and its write, the pasteboard empty and the data read at entry
\* held in image_data.
C16_Witness ==
    /\ Running("write")
    /\ pb = <<>>
    /\ entry_pb # {}
    /\ HasBytes(image_data)
    /\ image_data = DataForType(AtEntry, image_type)

\* get_clipboard_contents returns (None, None).
ReadFails ==
    /\ pc \in {"poll", "read_text"}
    /\ pc' = "sleep"
    /\ current_types' = None

\* The handler of line 216 ends a tick after its read.
PrintFails == pc = "read_text" /\ pc' = "backoff"

\* C17: if from some point on the pasteboard holds image and text without a
\* file reference and is not written any more, every read succeeds and no
\* tick is ended by the handler of line 216, then copy_image_only is
\* entered again and again (from any point on, once more): also for
\* content copied again after a correction, and for content that a failed
\* copy_image_only left in place.
C17_EventuallyInvoked ==
    (/\ <>[](status = "running" /\ has_image_and_text(TypesOf(pb)))
     /\ <>[][pb' = pb /\ ~ReadFails /\ ~PrintFails]_vars)
    => []<>(pc \in CorrectorPcs)

\* C17 witness: the loop is about to poll a pasteboard that holds image
\* bytes and text, written after the latest read, whose snapshot is equal
\* to (last_types, last_plain_text): the read will find nothing changed.
C17_Witness ==
    /\ Running("poll")
    /\ poll_interval > 0
    /\ touched
    /\ has_image_and_text(TypesOf(pb))
    /\ HasBytes(DataForType(pb, NSPasteboardTypeTIFF))
    /\ ~clipboard_changed(TypesOf(pb),
                          DataForType(pb, NSPasteboardTypeString))

\* C18: whatever another process writes and whenever, clearContents (line
\* 140) goes through only on a pasteboard that holds image and text and no
\* file reference at that moment, and setData_forType_ (line 145) stores
\* the image only on the pasteboard its own clear emptied.
C18_ClearsOnlyMatchingContent ==
    [][/\ (pc = "clear" /\ pc' = "write")
          => PatternOfSet(Range(TypesOf(pb)))
       /\ (pc = "write" /\ OwnStep /\ pb' # pb) => pb = <<>>]_vars

\* C18 witness: copy_image_only holds image data and is at line 140 while
\* the pasteboard holds a file copy that another process put there after
\* the snapshot was taken.
C18_Witness ==
    /\ Running("clear")
    /\ HasBytes(image_data)
    /\ entry_pb = {}
    /\ pb \in FileCopies
    /\ ~has_file(current_types)

====
